---------------------------- MODULE Spec2Model ----------------------------
(***************************************************************************)
(* Seat inventory and reservation handler (src/seat-map.js) of the flight   *)
(* booking back end, as a state machine over the shared Flights table,      *)
(* followed by the fare pricing of src/search-flights.js, the payment       *)
(* handler of src/payment-processor.js over the Bookings table, and the     *)
(* manifest handler of src/validate-passengers.js.  Each has its own        *)
(* specification over the one set of variables.                             *)
(*                                                                          *)
(* One invocation of the handler is split at its awaits: the synchronous    *)
(* part up to the first store call, the completion of the GetCommand, and   *)
(* the completion of the UpdateCommand.  Invocations interleave at these    *)
(* points only.                                                             *)
(*                                                                          *)
(* JavaScript strings that the code takes apart or builds (seat ids) are    *)
(* sequences of one-character strings: "14C" is <<"1","4","C">>.            *)
(* Dates are <<year, month, day>>; `new Date(dateOfBirth)` and `new Date()` *)
(* are read in the same time zone (the runtime's, UTC).                     *)
(***************************************************************************)
EXTENDS Integers, Sequences, FiniteSets, TLC

\* ------------------------------------------------------------------ bounds
\* concurrent invocations of the handler in Spec
NumRequests == 2
\* invocations run one after another in SpecSeq
MaxInvocations == 2
\* payment requests served one after another in SpecPay
MaxPayments == 2

\* ------------------------------------------------------ JavaScript values
Undefined == [kind |-> "undefined"]
Arr(s) == [kind |-> "array", val |-> s]
\* a truthy value that is not an array (a seat id sent as a bare string)
StrVal(s) == [kind |-> "string", val |-> s]

\* !x with an empty array taken for a missing field
FalsyOrEmpty(v) == v.kind = "undefined" \/ v.val = <<>>

\* !x for the request fields: undefined is falsy, any array and any
\* non-empty string is truthy
Falsy(v) == v.kind = "undefined" \/ (v.kind = "string" /\ v.val = <<>>)

\* Array.isArray
IsArray(v) == v.kind = "array"

\* NaN of parseInt and of an invalid date's fields
NaN == -1000000

\* Array.prototype.includes
Includes(arr, x) == \E i \in 1..Len(arr) : arr[i] = x

RECURSIVE Filter(_, _)
\* Array.prototype.filter with the set of kept values as predicate
Filter(arr, keep) ==
    IF arr = <<>> THEN <<>>
    ELSE (IF Head(arr) \in keep THEN <<Head(arr)>> ELSE <<>>) \o Filter(Tail(arr), keep)

\* ------------------------------------------------------------- characters
Digits == <<"0", "1", "2", "3", "4", "5", "6", "7", "8", "9">>
UpperCase == <<"A", "B", "C", "D", "E", "F", "G", "H", "I", "J", "K", "L", "M",
               "N", "O", "P", "Q", "R", "S", "T", "U", "V", "W", "X", "Y", "Z">>

IsDigit(c) == \E i \in 1..10 : Digits[i] = c
DigitValue(c) == (CHOOSE i \in 1..10 : Digits[i] = c) - 1

\* String.fromCharCode for the codes of the upper-case letters (65 is "A")
fromCharCode(code) == UpperCase[code - 64]

RECURSIVE NumberToString(_)
\* `${row}`: decimal digits of a non-negative integer, no leading zero
NumberToString(n) ==
    IF n < 10 THEN <<Digits[n + 1]>>
    ELSE NumberToString(n \div 10) \o <<Digits[(n % 10) + 1]>>

RECURSIVE ParseDigits(_, _, _)
ParseDigits(s, i, acc) ==
    IF i <= Len(s) /\ IsDigit(s[i])
    THEN ParseDigits(s, i + 1, acc * 10 + DigitValue(s[i]))
    ELSE acc

\* parseInt(seat): the number written by the leading digits, NaN without one
parseInt(s) ==
    IF s # <<>> /\ IsDigit(s[1]) THEN ParseDigits(s, 1, 0) ELSE NaN

\* /^[1-9]\d?[A-F]$/.test(seat)
seatPattern(s) ==
    /\ Len(s) \in {2, 3}
    /\ IsDigit(s[1]) /\ s[1] # "0"
    /\ Len(s) = 3 => IsDigit(s[2])
    /\ s[Len(s)] \in {"A", "B", "C", "D", "E", "F"}

\* ------------------------------------------------------------ seat layout
rows == 30
seatsPerRow == 6

\* SeatEntry with the emergency rows looked up by a zero-based row index
SeatEntryZeroBasedRow(flight, row, seatNum) ==
    LET seatLetter == fromCharCode(65 + seatNum)
        seatId == NumberToString(row) \o <<seatLetter>>
    IN  [id |-> seatId,
         number |-> seatId,
         status |-> IF Includes(flight.occupiedSeats, seatId)
                    THEN "occupied" ELSE "available",
         isEmergencyExit |-> Includes(flight.emergencyExitRows, row - 1),
         isPremium |-> Includes(flight.premiumSeats, seatId)]

\* the entry pushed for one (row, seatNum) of the loops of generateSeatMap
SeatEntry(flight, row, seatNum) ==
    LET seatLetter == fromCharCode(65 + seatNum)
        seatId == NumberToString(row) \o <<seatLetter>>
    IN  [id |-> seatId,
         number |-> seatId,
         status |-> IF Includes(flight.occupiedSeats, seatId)
                    THEN "occupied" ELSE "available",
         isEmergencyExit |-> Includes(flight.emergencyExitRows, row),
         isPremium |-> Includes(flight.premiumSeats, seatId)]

RECURSIVE SeatNumLoop(_, _, _)
\* the inner loop: for seatNum = 0..seatsPerRow-1, push the entry
SeatNumLoop(flight, row, seatNum) ==
    IF seatNum < seatsPerRow
    THEN <<SeatEntry(flight, row, seatNum)>> \o SeatNumLoop(flight, row, seatNum + 1)
    ELSE <<>>

RECURSIVE RowLoop(_, _)
\* the outer loop: for row = 1..rows
RowLoop(flight, row) ==
    IF row <= rows
    THEN SeatNumLoop(flight, row, 0) \o RowLoop(flight, row + 1)
    ELSE <<>>

generateSeatMap(flight) == RowLoop(flight, 1)

\* ------------------------------------------------------------- validation
\* validateSeatSelection(seats, passengers): shape, empty selection,
\* cardinality, format
validateSeatSelection(seats, passengers) ==
    IF ~IsArray(seats) THEN FALSE
    ELSE IF Len(seats.val) = 0 THEN TRUE
    ELSE IF Len(seats.val) > Len(passengers.val) THEN FALSE
    ELSE \A i \in 1..Len(seats.val) : seatPattern(seats.val[i])

\* the seats of the selection found in flight.occupiedSeats (the filter)
unavailableSeats(seats, flight) ==
    Filter(seats, {s \in {seats[i] : i \in 1..Len(seats)} :
                     Includes(flight.occupiedSeats, s)})

\* validateSeatAvailability looking at the first selected seat only
validateSeatAvailabilityFirstOnly(seats, flight) ==
    IF Len(seats) = 0 THEN TRUE
    ELSE ~Includes(flight.occupiedSeats, seats[1])

validateSeatAvailability(seats, flight) ==
    IF Len(seats) = 0 THEN TRUE
    ELSE IF Len(unavailableSeats(seats, flight)) > 0 THEN FALSE
    ELSE TRUE

\* calculateAge(dateOfBirth) at the date `today`; a missing or unparsable
\* date of birth is an invalid Date, whose fields are NaN
calculateAge(dateOfBirth, today) ==
    IF dateOfBirth = <<>> THEN NaN
    ELSE LET age == today[1] - dateOfBirth[1]
             monthDiff == today[2] - dateOfBirth[2]
         IN  IF monthDiff < 0 \/ (monthDiff = 0 /\ today[3] < dateOfBirth[3])
             THEN age - 1
             ELSE age

\* isEligibleForEmergencyRow with the lower bound exclusive
isEligibleOver15(passenger, today) ==
    LET age == calculateAge(passenger.dateOfBirth, today)
    IN  age # NaN /\ age > 15 /\ age <= 75

\* comparisons with NaN are false
isEligibleForEmergencyRow(passenger, today) ==
    LET age == calculateAge(passenger.dateOfBirth, today)
    IN  age # NaN /\ age >= 15 /\ age <= 75

validateEmergencyExitRows(seats, passengers, flight, today) ==
    IF Len(seats) = 0 THEN TRUE
    ELSE \A index \in 1..Len(seats) :
            LET row == parseInt(seats[index])
            IN  IF Includes(flight.emergencyExitRows, row)
                THEN isEligibleForEmergencyRow(passengers[index], today)
                ELSE TRUE

\* the surcharge taken once per premium seat id, not once per position
calculateSeatCostOnce(seats, flight) ==
    flight.premiumSeatCost *
        Cardinality({seats[i] : i \in 1..Len(seats)} \cap
                    {flight.premiumSeats[k] : k \in 1..Len(flight.premiumSeats)})

RECURSIVE calculateSeatCost(_, _)
\* seats.reduce over the selection, from 0
calculateSeatCost(seats, flight) ==
    IF seats = <<>> THEN 0
    ELSE LET init == SubSeq(seats, 1, Len(seats) - 1)
             seat == seats[Len(seats)]
         IN  IF Includes(flight.premiumSeats, seat)
             THEN calculateSeatCost(init, flight) + flight.premiumSeatCost
             ELSE calculateSeatCost(init, flight)

\* createResponse(statusCode, body); the CORS headers are the same constant
\* in every response and the body is kept as the object that is serialised
createResponse(statusCode, body) == [statusCode |-> statusCode, body |-> body]

\* the catch block answering with the message alone, without an 'error' field
internalErrorDetailsOnly(message) ==
    createResponse(500, [details |-> message])

\* the handler's catch block: any thrown error becomes a 500
internalError(message) ==
    createResponse(500, [error |-> "Internal server error", details |-> message])

\* ------------------------------------------------------------------ state
VARIABLES
    store,          \* the Flights table: flightId -> flight record
    today,          \* the date `new Date()` gives
    pc,             \* per invocation: idle, getSeatMap, getFlight, update, done
    event,          \* per invocation: the event it was given
    flight,         \* per invocation: the flight snapshot its GetCommand returned
    response,       \* per invocation: the response it returned
    reads,          \* per invocation: GetCommands it has sent
    writes,         \* per invocation: UpdateCommands it has sent
    confirmed,      \* <<flightId, seat>> of every reserveSeats answered with success
    seenConfirmed,  \* per invocation: `confirmed` when it started
    invocations,    \* invocations started so far
    bookings,       \* the Bookings table: bookingRef -> booking record
    pay,            \* the payment handler's invocation
    charged,        \* payment ids the payment call has returned with success
    payments,       \* payment invocations started so far
    manifest,       \* the passenger-manifest handler's invocation
    pricing         \* the fare pricing of a list of flights

\* the state of the seat handler and of the Flights table
seatVars == <<store, today, pc, event, flight, response, reads, writes,
              confirmed, seenConfirmed, invocations>>

\* the state of the other handlers
otherVars == <<bookings, pay, charged, payments, manifest, pricing>>

vars == <<store, today, pc, event, flight, response, reads, writes,
          confirmed, seenConfirmed, invocations,
          bookings, pay, charged, payments, manifest, pricing>>

Requests == 1..NumRequests

None == [kind |-> "none"]

\* ----------------------------------------------------------------- inputs
\* An event: httpMethod, contextMethod (requestContext.http.method, "" when
\* absent) and body: a JSON object, text that is not JSON ("malformed"), or
\* no body ("undefined").  A flightId is a string, "" when missing.
Seat(row, letter) == NumberToString(row) \o <<letter>>

Passenger(dob) == [dateOfBirth |-> dob]

Today0 == <<2026, 6, 15>>
Today1 == <<2026, 6, 16>>
Todays == {Today0, Today1}
\* dates of birth by the age they give on Today0
Born14 == <<2011, 6, 16>>
Born15 == <<2011, 6, 15>>
Born30 == <<1996, 1, 20>>
Born75 == <<1950, 6, 16>>
Born76 == <<1950, 6, 15>>
Born14m == <<2011, 7, 1>>
Born76m == <<1950, 5, 31>>
NoBirthDate == <<>>

Request(action, flightId, seats, passengers) ==
    [httpMethod |-> "POST", contextMethod |-> "",
     body |-> [kind |-> "object", action |-> action, flightId |-> flightId,
               seats |-> seats, passengers |-> passengers]]

Reserve(flightId, seats, dobs) ==
    Request("reserveSeats", flightId, Arr(seats),
            Arr([i \in 1..Len(dobs) |-> Passenger(dobs[i])]))

GetMap(flightId) == Request("getSeatMap", flightId, Undefined, Undefined)

\* the flight seeded in the table, with `occupied` already taken
SeededFlight(occupied) ==
    [flightId |-> "F1",
     totalSeats |-> 180,
     availableSeats |-> 180 - Len(occupied),
     occupiedSeats |-> occupied,
     emergencyExitRows |-> <<1, 12>>,
     premiumSeats |-> <<Seat(1, "A"), Seat(2, "B")>>,
     premiumSeatCost |-> 25,
     basePrice |-> 200]

InitialOccupied == {<<>>, <<Seat(12, "A")>>}

\* every seat id of the cabin, front to back
AllSeatIds ==
    [i \in 1..180 |-> Seat(((i - 1) \div 6) + 1,
                           <<"A", "B", "C", "D", "E", "F">>[((i - 1) % 6) + 1])]

\* flight snapshots given to the seat map generator in SpecGen
GenFlights ==
    { [SeededFlight(occ) EXCEPT !.emergencyExitRows = exits, !.premiumSeats = prem] :
        occ \in {<<>>, AllSeatIds, <<Seat(1, "A")>>, <<Seat(30, "F"), Seat(1, "A")>>,
                 <<Seat(31, "A")>>, <<Seat(2, "B"), Seat(2, "B")>>},
        exits \in {<<>>, <<1, 12>>, <<30>>},
        prem \in {<<>>, <<Seat(1, "A"), Seat(2, "B")>>, <<Seat(30, "F")>>} }

\* requests that race in Spec
ConcEvents ==
    { Reserve("F1", <<Seat(2, "B")>>, <<Born30>>),
      Reserve("F1", <<Seat(3, "C")>>, <<Born30>>),
      Reserve("F1", <<Seat(2, "B"), Seat(1, "A")>>, <<Born30, Born15>>),
      Reserve("F1", <<Seat(12, "A")>>, <<Born14>>),
      GetMap("F1") }

\* requests served one after another in SpecSeq
SeqEvents ==
    { Reserve("F1", <<Seat(1, "A")>>, <<Born15>>),
      Reserve("F1", <<Seat(1, "A")>>, <<Born14>>),
      Reserve("F1", <<Seat(1, "B")>>, <<Born75>>),
      Reserve("F1", <<Seat(1, "B")>>, <<Born76>>),
      Reserve("F1", <<Seat(12, "B")>>, <<Born14m>>),
      Reserve("F1", <<Seat(12, "B")>>, <<Born76m>>),
      Reserve("F1", <<Seat(1, "C")>>, <<NoBirthDate>>),
      Reserve("F1", <<Seat(3, "C"), Seat(1, "A")>>, <<Born14, Born30>>),
      Reserve("F1", <<Seat(3, "C"), Seat(1, "A")>>, <<Born30, Born14>>),
      Reserve("F1", <<Seat(12, "A")>>, <<Born14>>),
      Reserve("F1", <<Seat(2, "B"), Seat(12, "A")>>, <<Born30, Born30>>),
      Reserve("F1", <<Seat(2, "B"), Seat(2, "B")>>, <<Born30, Born30>>),
      Reserve("F1", <<Seat(31, "A")>>, <<Born30>>),
      Reserve("F1", <<Seat(0, "A")>>, <<Born30>>),
      Reserve("F1", <<Seat(2, "B"), Seat(3, "C")>>, <<Born30>>),
      Reserve("F1", <<Seat(1, "G"), Seat(12, "A")>>, <<Born14>>),
      Reserve("F1", <<Seat(12, "A"), Seat(100, "A")>>, <<Born14, Born14>>),
      Reserve("F1", <<>>, <<Born14>>),
      Reserve("F1", <<>>, <<NoBirthDate, Born76>>),
      Reserve("F1", <<>>, <<>>),
      Reserve("F9", <<Seat(2, "B")>>, <<Born30>>),
      Request("reserveSeats", "F1", StrVal(Seat(2, "B")), Arr(<<Passenger(Born30)>>)),
      Request("reserveSeats", "F1", Undefined, Arr(<<Passenger(Born30)>>)),
      Request("reserveSeats", "", Arr(<<Seat(2, "B")>>), Arr(<<Passenger(Born30)>>)),
      GetMap("F1"),
      GetMap("F9"),
      GetMap(""),
      Request("cancelSeats", "F1", Undefined, Undefined),
      [GetMap("F1") EXCEPT !.httpMethod = "OPTIONS"],
      [GetMap("F1") EXCEPT !.httpMethod = "GET"],
      [GetMap("F1") EXCEPT !.httpMethod = "", !.contextMethod = "POST"],
      [httpMethod |-> "POST", contextMethod |-> "", body |-> [kind |-> "malformed"]],
      [httpMethod |-> "POST", contextMethod |-> "", body |-> [kind |-> "undefined"]] }

\* ---------------------------------------------------------------- handler
EmptyObject == <<>>

Continue(next) == [next |-> next, response |-> None]
Respond(statusCode, body) == [next |-> "done", response |-> createResponse(statusCode, body)]
Throw(message) == [next |-> "done", response |-> internalError(message)]

\* the handler from its entry to its first await (or to its return)
handlerEntry(e) ==
    IF e.body.kind = "malformed" THEN Throw("Unexpected token in JSON")
    ELSE IF e.httpMethod = "OPTIONS" THEN Respond(200, EmptyObject)
    ELSE IF e.httpMethod # "POST" /\ e.contextMethod # "POST"
    THEN Respond(405, [error |-> "Method not allowed"])
    ELSE IF e.body.kind = "undefined"
    THEN Throw("Cannot read properties of undefined")
    ELSE LET requestData == e.body IN
         CASE requestData.action = "getSeatMap" ->
                 IF requestData.flightId = ""
                 THEN Respond(400, [error |-> "Flight ID is required"])
                 ELSE Continue("getSeatMap")
           [] requestData.action = "reserveSeats" ->
                 IF \/ requestData.flightId = ""
                    \/ Falsy(requestData.seats)
                    \/ Falsy(requestData.passengers)
                 THEN Respond(400, [error |->
                     "Missing required fields: flightId, seats, and passengers are required"])
                 ELSE IF ~validateSeatSelection(requestData.seats, requestData.passengers)
                 THEN Respond(400, [error |-> "Invalid seat selection"])
                 ELSE Continue("getFlight")
           [] OTHER -> Respond(400, [error |-> "Invalid action specified"])

\* reserveChecks with the eligibility check ahead of the availability check
reserveChecksSwapped(seats, passengers, flightData, now) ==
    IF ~validateEmergencyExitRows(seats, passengers, flightData, now)
    THEN Respond(400, [error |-> "Invalid emergency exit row selection"])
    ELSE IF ~validateSeatAvailability(seats, flightData)
    THEN Respond(409, [error |-> "Selected seats are no longer available"])
    ELSE Continue("update")

\* the reserveSeats case after getFlight returned `flightData`
reserveChecks(seats, passengers, flightData, now) ==
    IF ~validateSeatAvailability(seats, flightData)
    THEN Respond(409, [error |-> "Selected seats are no longer available"])
    ELSE IF ~validateEmergencyExitRows(seats, passengers, flightData, now)
    THEN Respond(400, [error |-> "Invalid emergency exit row selection"])
    ELSE Continue("update")

\* getSeatMap's result for the item the GetCommand returned
seatMapOf(flightData) ==
    [seats |-> generateSeatMap(flightData),
     emergencyExitRows |-> flightData.emergencyExitRows,
     premiumSeats |-> flightData.premiumSeats]

\* reserveSeats with SET occupiedSeats = :seats, without list_append
reserveSeatsOverwrite(table, flightId, seats) ==
    [table EXCEPT ![flightId].occupiedSeats = seats]

\* the UpdateCommand of reserveSeats applied to the table:
\* SET occupiedSeats = list_append(occupiedSeats, :seats)
reserveSeats(table, flightId, seats) ==
    [table EXCEPT ![flightId].occupiedSeats = @ \o seats]

\* the success response of the reserveSeats case
reserved(seats, flightData) ==
    createResponse(200, [success |-> TRUE,
                         seatAssignments |-> seats,
                         additionalCost |-> calculateSeatCost(seats, flightData)])

FlightIdOf(r) == event[r].body.flightId
SeatsOf(r) == event[r].body.seats.val
PassengersOf(r) == event[r].body.passengers.val

\* ---------------------------------------------------------------- actions
\* the table holds one of `flights`, the date is one of `dates`, and no
\* invocation has started
SeatIdle(flights, dates) ==
    /\ store \in {[id \in {"F1"} |-> f] : f \in flights}
    /\ today \in dates
    /\ pc = [r \in Requests |-> "idle"]
    /\ event = [r \in Requests |-> None]
    /\ flight = [r \in Requests |-> None]
    /\ response = [r \in Requests |-> None]
    /\ reads = [r \in Requests |-> 0]
    /\ writes = [r \in Requests |-> 0]
    /\ confirmed = {}
    /\ seenConfirmed = [r \in Requests |-> {}]
    /\ invocations = 0

\* the Bookings table is empty and no payment request has arrived
PayIdle ==
    /\ bookings = <<>>
    /\ pay = [pc |-> "idle"]
    /\ charged = {}
    /\ payments = 0

\* no passenger manifest has been submitted
ManifestIdle == manifest = [pc |-> "idle"]

\* no search result is being priced
PricingIdle == pricing = [pc |-> "idle"]

\* the seat handler's initial state, the other handlers being idle
InitWith(flights, dates) ==
    /\ SeatIdle(flights, dates)
    /\ PayIdle
    /\ ManifestIdle
    /\ PricingIdle

Init == InitWith({SeededFlight(occ) : occ \in InitialOccupied}, {Today0})

\* an invocation arrives and runs to its first await or to its return
Start(r, events) ==
    /\ pc[r] = "idle"
    /\ \E e \in events :
          LET out == handlerEntry(e) IN
          /\ event' = [event EXCEPT ![r] = e]
          /\ pc' = [pc EXCEPT ![r] = out.next]
          /\ response' = [response EXCEPT ![r] = out.response]
          /\ reads' = [reads EXCEPT ![r] = IF out.next = "done" THEN 0 ELSE 1]
    /\ seenConfirmed' = [seenConfirmed EXCEPT ![r] = confirmed]
    /\ invocations' = invocations + 1
    /\ UNCHANGED <<store, today, flight, writes, confirmed>>
    /\ UNCHANGED otherVars

\* getSeatMap's GetCommand completes
GetSeatMapReturns(r) ==
    /\ pc[r] = "getSeatMap"
    /\ pc' = [pc EXCEPT ![r] = "done"]
    /\ IF FlightIdOf(r) \in DOMAIN store
       THEN /\ flight' = [flight EXCEPT ![r] = store[FlightIdOf(r)]]
            /\ response' = [response EXCEPT ![r] =
                              createResponse(200, seatMapOf(store[FlightIdOf(r)]))]
       ELSE /\ flight' = flight
            /\ response' = [response EXCEPT ![r] = internalError("Flight not found")]
    /\ UNCHANGED <<store, today, event, reads, writes, confirmed, seenConfirmed,
                   invocations>>
    /\ UNCHANGED otherVars

\* GetFlightReturns with the append sent ahead of the two checks against the
\* snapshot: a rejected selection is already in the record
GetFlightReturnsAppendFirst(r) ==
    /\ pc[r] = "getFlight"
    /\ IF FlightIdOf(r) \in DOMAIN store
       THEN LET out == reserveChecks(SeatsOf(r), PassengersOf(r),
                                     store[FlightIdOf(r)], today) IN
            /\ flight' = [flight EXCEPT ![r] = store[FlightIdOf(r)]]
            /\ store' = reserveSeats(store, FlightIdOf(r), SeatsOf(r))
            /\ pc' = [pc EXCEPT ![r] = out.next]
            /\ response' = [response EXCEPT ![r] = out.response]
            /\ writes' = [writes EXCEPT ![r] = 1]
       ELSE /\ flight' = flight
            /\ store' = store
            /\ pc' = [pc EXCEPT ![r] = "done"]
            /\ response' = [response EXCEPT ![r] = internalError("Flight not found")]
            /\ writes' = writes
    /\ UNCHANGED <<today, event, reads, confirmed, seenConfirmed, invocations>>
    /\ UNCHANGED otherVars

\* getFlight's GetCommand completes; the handler validates against the
\* snapshot and either returns or sends the UpdateCommand
GetFlightReturns(r) ==
    /\ pc[r] = "getFlight"
    /\ IF FlightIdOf(r) \in DOMAIN store
       THEN LET out == reserveChecks(SeatsOf(r), PassengersOf(r),
                                     store[FlightIdOf(r)], today) IN
            /\ flight' = [flight EXCEPT ![r] = store[FlightIdOf(r)]]
            /\ pc' = [pc EXCEPT ![r] = out.next]
            /\ response' = [response EXCEPT ![r] = out.response]
            /\ writes' = [writes EXCEPT ![r] = IF out.next = "update" THEN 1 ELSE 0]
       ELSE /\ flight' = flight
            /\ pc' = [pc EXCEPT ![r] = "done"]
            /\ response' = [response EXCEPT ![r] = internalError("Flight not found")]
            /\ writes' = writes
    /\ UNCHANGED <<store, today, event, reads, confirmed, seenConfirmed, invocations>>
    /\ UNCHANGED otherVars

\* a GetCommand is rejected by the store (throttling, network): the error
\* propagates to the handler's catch
GetFails(r) ==
    /\ pc[r] \in {"getSeatMap", "getFlight"}
    /\ pc' = [pc EXCEPT ![r] = "done"]
    /\ response' = [response EXCEPT ![r] = internalError("Storage error")]
    /\ UNCHANGED <<store, today, event, flight, reads, writes, confirmed,
                   seenConfirmed, invocations>>
    /\ UNCHANGED otherVars

\* the UpdateCommand completes: the conditional append is applied if the
\* item exists, else ConditionalCheckFailedException is rethrown
UpdateReturns(r) ==
    /\ pc[r] = "update"
    /\ pc' = [pc EXCEPT ![r] = "done"]
    /\ IF FlightIdOf(r) \in DOMAIN store
       THEN /\ store' = reserveSeats(store, FlightIdOf(r), SeatsOf(r))
            /\ response' = [response EXCEPT ![r] = reserved(SeatsOf(r), flight[r])]
            /\ confirmed' = confirmed \cup
                  {<<FlightIdOf(r), SeatsOf(r)[i]>> : i \in 1..Len(SeatsOf(r))}
       ELSE /\ store' = store
            /\ response' = [response EXCEPT ![r] =
                              internalError("Concurrent seat reservation detected")]
            /\ confirmed' = confirmed
    /\ UNCHANGED <<today, event, flight, reads, writes, seenConfirmed, invocations>>
    /\ UNCHANGED otherVars

\* the UpdateCommand is rejected by the store for another reason
UpdateFails(r) ==
    /\ pc[r] = "update"
    /\ pc' = [pc EXCEPT ![r] = "done"]
    /\ response' = [response EXCEPT ![r] = internalError("Storage error")]
    /\ UNCHANGED <<store, today, event, flight, reads, writes, confirmed,
                   seenConfirmed, invocations>>
    /\ UNCHANGED otherVars

\* the flight record is removed by its owner, outside this handler
DeleteFlight ==
    /\ \E id \in DOMAIN store :
          store' = [f \in DOMAIN store \ {id} |-> store[f]]
    /\ UNCHANGED <<today, pc, event, flight, response, reads, writes, confirmed,
                   seenConfirmed, invocations>>
    /\ UNCHANGED otherVars

\* the response has been delivered and the invocation is over
Finish(r) ==
    /\ pc[r] = "done"
    /\ pc' = [pc EXCEPT ![r] = "idle"]
    /\ event' = [event EXCEPT ![r] = None]
    /\ flight' = [flight EXCEPT ![r] = None]
    /\ response' = [response EXCEPT ![r] = None]
    /\ reads' = [reads EXCEPT ![r] = 0]
    /\ writes' = [writes EXCEPT ![r] = 0]
    /\ seenConfirmed' = [seenConfirmed EXCEPT ![r] = {}]
    /\ UNCHANGED <<store, today, confirmed, invocations>>
    /\ UNCHANGED otherVars

\* concurrent invocations, each slot used once
Next ==
    \/ \E r \in Requests : Start(r, ConcEvents)
    \/ \E r \in Requests : GetSeatMapReturns(r)
    \/ \E r \in Requests : GetFlightReturns(r)
    \/ \E r \in Requests : GetFails(r)
    \/ \E r \in Requests : UpdateReturns(r)
    \/ \E r \in Requests : UpdateFails(r)
    \/ DeleteFlight

Spec == Init /\ [][Next]_vars

\* invocations served one after another, over the wider set of requests
NextSeq ==
    \/ (invocations < MaxInvocations /\ Start(1, SeqEvents))
    \/ GetSeatMapReturns(1)
    \/ GetFlightReturns(1)
    \/ GetFails(1)
    \/ UpdateReturns(1)
    \/ UpdateFails(1)
    \/ DeleteFlight
    \/ Finish(1)

InitSeq == InitWith({SeededFlight(occ) : occ \in InitialOccupied}, Todays)

SpecSeq == InitSeq /\ [][NextSeq]_vars

\* the seat map requested for each of a range of flight snapshots
InitGen == InitWith(GenFlights, {Today0})

NextGen ==
    \/ Start(1, {GetMap("F1")})
    \/ GetSeatMapReturns(1)

SpecGen == InitGen /\ [][NextGen]_vars

\* ------------------------------------------------------------- properties
\* what the properties say about an invocation, stated without the
\* handler's own operators
Letters == {"A", "B", "C", "D", "E", "F"}

\* the seat ids the format rule admits: rows 1..99, letters A..F
AdmittedSeatIds == {Seat(n, l) : n \in 1..99, l \in Letters}

IsReserve(r) ==
    /\ pc[r] # "idle"
    /\ event[r].body.kind = "object"
    /\ event[r].httpMethod = "POST" \/ event[r].contextMethod = "POST"
    /\ event[r].httpMethod # "OPTIONS"
    /\ event[r].body.action = "reserveSeats"
    /\ event[r].body.flightId # ""
    /\ event[r].body.seats.kind = "array"
    /\ event[r].body.passengers.kind = "array"

SeatSet(r) == {SeatsOf(r)[i] : i \in 1..Len(SeatsOf(r))}

Succeeded(r) == IsReserve(r) /\ pc[r] = "done" /\ response[r].statusCode = 200

\* the invocation was answered with the store's own failure
StoreFailed(r) ==
    /\ pc[r] = "done"
    /\ response[r].statusCode = 500
    /\ response[r].body.details = "Storage error"

HasSnapshot(r) == flight[r] # None

OccupiedSet(f) == {f.occupiedSeats[i] : i \in 1..Len(f.occupiedSeats)}

\* shape, cardinality and format hold for the selection
WellFormed(r) ==
    /\ Len(SeatsOf(r)) <= Len(PassengersOf(r))
    /\ SeatSet(r) \subseteq AdmittedSeatIds

\* the row a well-formed seat id names
RowOf(s) == CHOOSE n \in 1..99 : \E l \in Letters : s = Seat(n, l)

\* whole years from the date of birth to `now`: birthdays reached so far
AgeOn(dob, now) ==
    IF dob = <<>> THEN -1
    ELSE Cardinality({k \in 1..130 :
            \/ dob[1] + k < now[1]
            \/ dob[1] + k = now[1] /\ dob[2] < now[2]
            \/ dob[1] + k = now[1] /\ dob[2] = now[2] /\ dob[3] <= now[3]})

\* the positions of the selection that sit in an emergency exit row of the snapshot
ExitPositions(r) ==
    {i \in 1..Len(SeatsOf(r)) :
        \E k \in 1..Len(flight[r].emergencyExitRows) :
            flight[r].emergencyExitRows[k] = RowOf(SeatsOf(r)[i])}

EligibleAt(r, i) ==
    AgeOn(PassengersOf(r)[i].dateOfBirth, today) \in 15..75

IsPrefix(s, u) == Len(s) <= Len(u) /\ SubSeq(u, 1, Len(s)) = s

\* C1: no seat id is committed to occupiedSeats by more than one
\* reserveSeats request that returned success (no double booking), under
\* every interleaving of concurrent requests on the same flight.
C1_NoDoubleBooking ==
    \A r1, r2 \in Requests :
        (r1 # r2 /\ Succeeded(r1) /\ Succeeded(r2) /\ FlightIdOf(r1) = FlightIdOf(r2))
            => SeatSet(r1) \cap SeatSet(r2) = {}

\* each of two requests is valid against the snapshot it read
ValidAgainstSnapshot(r) ==
    /\ IsReserve(r)
    /\ HasSnapshot(r)
    /\ WellFormed(r)
    /\ SeatSet(r) \cap OccupiedSet(flight[r]) = {}
    /\ \A i \in ExitPositions(r) : EligibleAt(r, i)

\* C2: two concurrent reserveSeats requests on disjoint, individually valid
\* seat sets for the same existing flight both return success (the store
\* answering both), and occupiedSeats then holds every seat of both
\* requests and every seat it held when either of them read it.
C2_DisjointBothCommit ==
    \A r1, r2 \in Requests :
        ( /\ r1 # r2
          /\ pc[r1] = "done" /\ pc[r2] = "done"
          /\ ValidAgainstSnapshot(r1) /\ ValidAgainstSnapshot(r2)
          /\ FlightIdOf(r1) = FlightIdOf(r2)
          /\ FlightIdOf(r1) \in DOMAIN store
          /\ SeatSet(r1) \cap SeatSet(r2) = {}
          /\ ~StoreFailed(r1) /\ ~StoreFailed(r2) )
        => /\ response[r1].statusCode = 200
           /\ response[r2].statusCode = 200
           /\ (SeatSet(r1) \cup SeatSet(r2) \cup OccupiedSet(flight[r1])
                 \cup OccupiedSet(flight[r2]))
                \subseteq OccupiedSet(store[FlightIdOf(r1)])

\* two successful requests on disjoint seats that both read the flight
\* before either committed, on a flight that already had a seat taken
C2_Witness ==
    \E r1, r2 \in Requests :
        /\ r1 # r2
        /\ Succeeded(r1) /\ Succeeded(r2)
        /\ SeatSet(r1) # {} /\ SeatSet(r2) # {}
        /\ SeatSet(r1) \cap SeatSet(r2) = {}
        /\ flight[r1].occupiedSeats = flight[r2].occupiedSeats
        /\ flight[r1].occupiedSeats # <<>>
        /\ "F1" \in DOMAIN store

\* C3: occupiedSeats of a flight is append-only: at every step its old
\* value is a prefix of its new value, and it changes only by a successful
\* reserveSeats commit that appends exactly that request's seats.
C3_AppendOnly ==
    [][\A f \in DOMAIN store \cap DOMAIN store' :
          /\ IsPrefix(store[f].occupiedSeats, store'[f].occupiedSeats)
          /\ store'[f].occupiedSeats # store[f].occupiedSeats =>
                \E r \in Requests :
                    /\ IsReserve(r) /\ FlightIdOf(r) = f
                    /\ pc[r] = "update" /\ pc'[r] = "done"
                    /\ response'[r].statusCode = 200
                    /\ store'[f].occupiedSeats = store[f].occupiedSeats \o SeatsOf(r)
                    /\ \A q \in Requests \ {r} : response'[q] = response[q]]_vars

\* a seeded seat followed by the seats of two committed requests
C3_Witness ==
    /\ "F1" \in DOMAIN store
    /\ \E r1, r2 \in Requests :
          /\ r1 # r2 /\ Succeeded(r1) /\ Succeeded(r2)
          /\ SeatsOf(r1) # <<>> /\ SeatsOf(r2) # <<>>
          /\ store["F1"].occupiedSeats =
                <<Seat(12, "A")>> \o SeatsOf(r1) \o SeatsOf(r2)

\* C4: every successful reserveSeats commit of k >= 1 seats leaves the
\* flight's availableSeats k lower than before the commit, and
\* 0 <= availableSeats <= totalSeats.
C4_AvailableSeatsDecrease ==
    [][\A r \in Requests :
          ( /\ pc[r] = "update" /\ pc'[r] = "done"
            /\ response'[r].statusCode = 200
            /\ Len(SeatsOf(r)) >= 1 )
          => LET f == FlightIdOf(r) IN
             /\ store'[f].availableSeats = store[f].availableSeats - Len(SeatsOf(r))
             /\ 0 <= store'[f].availableSeats
             /\ store'[f].availableSeats <= store'[f].totalSeats]_vars

\* a getSeatMap request answered with a seat map
GotSeatMap(r) ==
    /\ pc[r] = "done"
    /\ reads[r] = 1
    /\ event[r].body.action = "getSeatMap"
    /\ response[r].statusCode = 200

\* C5: once a reserveSeats request has returned success for a seat id s on
\* a flight, every getSeatMap request for that flight that starts afterwards
\* returns a seat entry with id s and status 'occupied', for every s that
\* reserveSeats accepts (rows 1-99, letters A-F).
C5_SeatMapShowsReserved ==
    \A r \in Requests :
        GotSeatMap(r) =>
            \A c \in seenConfirmed[r] :
                c[1] = FlightIdOf(r) =>
                    \E i \in 1..Len(response[r].body.seats) :
                        /\ response[r].body.seats[i].id = c[2]
                        /\ response[r].body.seats[i].status = "occupied"

\* C6: generateSeatMap returns exactly 30 x 6 = 180 entries with pairwise
\* distinct ids in row-major order (1A..1F, 2A, ..., 30F); an entry is
\* 'occupied' iff its id is in flight.occupiedSeats, isEmergencyExit iff its
\* row is in emergencyExitRows and isPremium iff its id is in premiumSeats.
C6_SeatMapLayout ==
    \A r \in Requests :
        GotSeatMap(r) =>
            LET seatMap == response[r].body.seats
                f == flight[r]
                RowAt(i) == ((i - 1) \div 6) + 1
                LetterAt(i) == <<"A", "B", "C", "D", "E", "F">>[((i - 1) % 6) + 1]
            IN  /\ Len(seatMap) = 180
                /\ \A i, j \in 1..Len(seatMap) : i # j => seatMap[i].id # seatMap[j].id
                /\ \A i \in 1..Len(seatMap) :
                      /\ parseInt(seatMap[i].id) = RowAt(i)
                      /\ Len(seatMap[i].id) = (IF RowAt(i) < 10 THEN 2 ELSE 3)
                      /\ seatMap[i].id[Len(seatMap[i].id)] = LetterAt(i)
                      /\ seatMap[i].id = AllSeatIds[i]
                      /\ seatMap[i].status \in {"occupied", "available"}
                      /\ seatMap[i].status = "occupied" <=>
                            seatMap[i].id \in OccupiedSet(f)
                      /\ seatMap[i].isEmergencyExit <=>
                            \E k \in 1..Len(f.emergencyExitRows) :
                                f.emergencyExitRows[k] = RowAt(i)
                      /\ seatMap[i].isPremium <=>
                            \E k \in 1..Len(f.premiumSeats) :
                                f.premiumSeats[k] = seatMap[i].id

\* the seat map of a flight with all 180 seats occupied, exit rows and
\* premium seats
C6_Witness ==
    \E r \in Requests :
        /\ GotSeatMap(r)
        /\ flight[r].occupiedSeats = AllSeatIds
        /\ flight[r].emergencyExitRows # <<>>
        /\ flight[r].premiumSeats # <<>>
        /\ \A i \in 1..Len(response[r].body.seats) :
              response[r].body.seats[i].status = "occupied"

\* a request that passed the presence check with a non-empty selection
NonEmptyReserve(r) == IsReserve(r) /\ SeatsOf(r) # <<>>

Collides(r) == SeatSet(r) \cap OccupiedSet(flight[r]) # {}

ErrorIs(r, statusCode, message) ==
    /\ pc[r] = "done"
    /\ response[r].statusCode = statusCode
    /\ response[r].body.error = message

\* a reserveSeats request that passed the presence check with a selection
\* that is not an array
NotArrayReserve(r) ==
    /\ pc[r] # "idle"
    /\ event[r].body.kind = "object"
    /\ event[r].httpMethod = "POST" \/ event[r].contextMethod = "POST"
    /\ event[r].httpMethod # "OPTIONS"
    /\ event[r].body.action = "reserveSeats"
    /\ event[r].body.flightId # ""
    /\ event[r].body.seats.kind = "string" /\ event[r].body.seats.val # <<>>
    /\ event[r].body.passengers.kind = "array"

\* C7: the checks run in the order shape, cardinality/format, availability,
\* emergency-exit eligibility and stop at the first failure: a non-empty
\* selection gets the response of the earliest check it violates (400, then
\* 409, then 400) and no later check reads the store or writes to it.
C7_CheckOrder ==
    \A r \in Requests :
      /\ NotArrayReserve(r) =>
            /\ ErrorIs(r, 400, "Invalid seat selection")
            /\ reads[r] = 0 /\ writes[r] = 0 /\ ~HasSnapshot(r)
      /\ (NonEmptyReserve(r) /\ pc[r] = "done" /\ ~StoreFailed(r)) =>
            IF ~WellFormed(r)
            THEN /\ ErrorIs(r, 400, "Invalid seat selection")
                 /\ reads[r] = 0 /\ writes[r] = 0 /\ ~HasSnapshot(r)
            ELSE HasSnapshot(r) =>
                 IF Collides(r)
                 THEN /\ ErrorIs(r, 409, "Selected seats are no longer available")
                      /\ writes[r] = 0
                 ELSE IF \E i \in ExitPositions(r) : ~EligibleAt(r, i)
                 THEN /\ ErrorIs(r, 400, "Invalid emergency exit row selection")
                      /\ writes[r] = 0
                 ELSE writes[r] = 1

\* a well-formed selection that is both unavailable and ineligible is
\* answered 409
C7_Witness ==
    \E r \in Requests :
        /\ NonEmptyReserve(r) /\ pc[r] = "done" /\ WellFormed(r) /\ HasSnapshot(r)
        /\ Collides(r)
        /\ \E i \in ExitPositions(r) : ~EligibleAt(r, i)
        /\ response[r].statusCode = 409

\* C8: a well-formed reserveSeats request with at least one selected seat
\* already in the occupiedSeats of the snapshot it read is rejected as
\* unavailable (409) and sends no update (none of its seats is appended).
C8_OccupiedSeatRejected ==
    \A r \in Requests :
        (NonEmptyReserve(r) /\ WellFormed(r) /\ HasSnapshot(r) /\ Collides(r)) =>
            /\ ErrorIs(r, 409, "Selected seats are no longer available")
            /\ writes[r] = 0
            /\ FlightIdOf(r) \in DOMAIN store =>
                  store[FlightIdOf(r)].occupiedSeats = flight[r].occupiedSeats

\* a selection whose first seat is free and whose second seat is taken
C8_Witness ==
    \E r \in Requests :
        /\ NonEmptyReserve(r) /\ WellFormed(r) /\ HasSnapshot(r)
        /\ Len(SeatsOf(r)) = 2
        /\ SeatsOf(r)[1] \notin OccupiedSet(flight[r])
        /\ SeatsOf(r)[2] \in OccupiedSet(flight[r])
        /\ response[r].statusCode = 409

\* C9: a reserveSeats request succeeds only if the passenger at every
\* position seated in an emergency exit row is aged 15 to 75 inclusive, and
\* it is rejected for emergency-row eligibility only if some such position
\* has a passenger outside that range: passengers at other positions never
\* cause the rejection.
C9_EmergencyRowEligibility ==
    \A r \in Requests :
        /\ (Succeeded(r) /\ SeatsOf(r) # <<>>) =>
              \A i \in ExitPositions(r) : EligibleAt(r, i)
        /\ (NonEmptyReserve(r)
              /\ ErrorIs(r, 400, "Invalid emergency exit row selection")) =>
              \E i \in ExitPositions(r) : ~EligibleAt(r, i)
        /\ (NonEmptyReserve(r) /\ WellFormed(r) /\ HasSnapshot(r) /\ ~Collides(r)
              /\ \E i \in ExitPositions(r) : ~EligibleAt(r, i)) =>
              ErrorIs(r, 400, "Invalid emergency exit row selection")

\* after a 75-year-old was seated in exit row 1, a selection seating a
\* 14-year-old outside the exit rows and an adult in one succeeds
C9_Witness ==
    /\ <<"F1", Seat(1, "B")>> \in confirmed
    /\ \E r \in Requests :
          /\ Succeeded(r)
          /\ Len(SeatsOf(r)) = 2
          /\ ExitPositions(r) = {2}
          /\ AgeOn(PassengersOf(r)[1].dateOfBirth, today) = 14

\* a getSeatMap or reserveSeats request that asked the store for a flight
\* that has no record
UnknownFlight(r) ==
    /\ pc[r] = "done"
    /\ reads[r] = 1
    /\ event[r].body.action \in {"getSeatMap", "reserveSeats"}
    /\ FlightIdOf(r) = "F9"
    /\ ~StoreFailed(r)

\* C10: a getSeatMap or reserveSeats request whose flightId has no record in
\* the store is answered 'not found' (404), not with the 'internal' (500)
\* classification of storage failures, and performs no write.
C10_UnknownFlightNotFound ==
    \A r \in Requests :
        UnknownFlight(r) =>
            /\ response[r].statusCode = 404
            /\ writes[r] = 0

\* -------------------------------------------- properties, second group
\* the step in which the conditional append of invocation r comes back
\* after the flight record was removed behind the invocation's snapshot
VanishedAtUpdate(r) ==
    /\ pc[r] = "update"
    /\ pc'[r] = "done"
    /\ HasSnapshot(r)
    /\ FlightIdOf(r) \notin DOMAIN store
    /\ response'[r].body.details # "Storage error"

\* C11: when the flight record is deleted between a reserveSeats request's
\* snapshot read and its conditional append, the append does not happen (no
\* record is created or changed) and the request is answered 'not found'
\* (404), neither success nor the generic internal error (500).
C11_VanishedFlightNotFound ==
    [][\A r \in Requests :
          VanishedAtUpdate(r) =>
              /\ store' = store
              /\ response'[r].statusCode = 404]_vars

\* a reserveSeats request with an empty selection has been answered
EmptySelection(r) ==
    /\ IsReserve(r)
    /\ SeatsOf(r) = <<>>
    /\ pc[r] = "done"

\* C12: a reserveSeats request whose seats list is empty is never rejected
\* by validation, whatever the passengers, occupiedSeats and
\* emergencyExitRows; when the flight exists and the store answers, it
\* returns success with seatAssignments [] and additionalCost 0, and
\* occupiedSeats is the same after the commit as before.
C12_EmptySelectionAccepted ==
    \A r \in Requests :
        EmptySelection(r) =>
            /\ response[r].statusCode \notin {400, 409}
            /\ (HasSnapshot(r) /\ FlightIdOf(r) \in DOMAIN store /\ ~StoreFailed(r)) =>
                  /\ response[r].statusCode = 200
                  /\ response[r].body.success
                  /\ response[r].body.seatAssignments = <<>>
                  /\ response[r].body.additionalCost = 0
                  /\ writes[r] = 1
                  /\ store[FlightIdOf(r)].occupiedSeats = flight[r].occupiedSeats

\* an empty selection for two passengers, one without a date of birth, was
\* committed on the flight whose exit-row seat 12A is occupied
C12_Witness ==
    \E r \in Requests :
        /\ EmptySelection(r)
        /\ Len(PassengersOf(r)) = 2
        /\ response[r].statusCode = 200
        /\ writes[r] = 1
        /\ FlightIdOf(r) \in DOMAIN store
        /\ store[FlightIdOf(r)].occupiedSeats = <<Seat(12, "A")>>

\* invocation r is waiting for the store
Pending(r) == pc[r] \in {"getSeatMap", "getFlight", "update"}

\* the response is one structured response: a status code and a body, the
\* body of every non-success naming its error
Structured(resp) ==
    /\ DOMAIN resp = {"statusCode", "body"}
    /\ resp.statusCode \in {200, 400, 405, 409, 500}
    /\ resp.statusCode # 200 => "error" \in DOMAIN resp.body

\* C13: every request to the seat handler, whatever its action, payload and
\* the store's outcome (fetch failure, conditional-check failure, transient
\* storage error), ends with exactly one structured response: no exception
\* escapes, every non-success body carries an 'error' string, a request that
\* waits for the store is completed by the store's answer, and a request
\* attempts at most one store read and one store write (no retry).
C13_OneStructuredResponse ==
    \A r \in Requests :
        /\ pc[r] = "done" => Structured(response[r])
        /\ pc[r] # "done" => response[r] = None
        /\ Pending(r) =>
              ENABLED (GetSeatMapReturns(r) \/ GetFlightReturns(r) \/ UpdateReturns(r))
        /\ reads[r] <= 1
        /\ writes[r] <= 1
        /\ writes[r] = 1 => reads[r] = 1

\* a reserveSeats request whose UpdateCommand the store rejected was answered
\* once, after one read and one write
C13_Witness ==
    \E r \in Requests :
        /\ IsReserve(r)
        /\ StoreFailed(r)
        /\ reads[r] = 1
        /\ writes[r] = 1
        /\ Structured(response[r])

\* the positions of the selection whose seat id is a premium seat of the snapshot
PremiumPositions(r) ==
    {i \in 1..Len(SeatsOf(r)) :
        \E k \in 1..Len(flight[r].premiumSeats) :
            flight[r].premiumSeats[k] = SeatsOf(r)[i]}

\* C15: the additionalCost of a successful reserveSeats request is
\* premiumSeatCost times the number of positions of the selection whose seat
\* id is in premiumSeats, and seatAssignments is the requested selection in
\* the same order.
C15_PremiumSurcharge ==
    \A r \in Requests :
        Succeeded(r) =>
            /\ response[r].body.seatAssignments = SeatsOf(r)
            /\ response[r].body.additionalCost =
                  flight[r].premiumSeatCost * Cardinality(PremiumPositions(r))

\* a selection of a standard seat followed by a premium seat succeeded and
\* was charged one surcharge
C15_Witness ==
    \E r \in Requests :
        /\ Succeeded(r)
        /\ SeatsOf(r) = <<Seat(3, "C"), Seat(1, "A")>>
        /\ PremiumPositions(r) = {2}
        /\ response[r].body.additionalCost = 25

\* the response of a reserveSeats request stopped by validation (missing
\* fields, bad shape, too many seats, bad format, seat unavailable,
\* ineligible passenger) or by an unknown flight
RejectedResponse(resp) ==
    \/ resp.statusCode \in {400, 409}
    \/ resp.statusCode = 500 /\ resp.body.details = "Flight not found"

\* the step in which invocation r returns its response
Returns(r) == pc[r] # "done" /\ pc'[r] = "done"

\* invocation r asked for the seat map
IsGetSeatMap(r) ==
    /\ pc[r] # "idle"
    /\ event[r].body.kind = "object"
    /\ event[r].body.action = "getSeatMap"

\* C16: validation never mutates: a reserveSeats request that ends
\* non-success because validation failed or the flight is unknown leaves
\* the whole flight record, occupiedSeats in particular, as it was and has
\* sent no write; a getSeatMap request never changes the flight record.
C16_RejectionLeavesRecord ==
    [][\A r \in Requests :
          /\ (Returns(r) /\ event'[r].body.kind = "object"
                /\ event'[r].body.action = "reserveSeats"
                /\ RejectedResponse(response'[r]))
                => (store' = store /\ writes'[r] = 0)
          /\ (IsGetSeatMap(r) /\ pc'[r] # pc[r])
                => (store' = store /\ writes'[r] = 0)]_vars

\* a selection naming the occupied seat 12A was rejected after the read and
\* the record still lists 12A once
C16_Witness ==
    \E r \in Requests :
        /\ IsReserve(r)
        /\ pc[r] = "done"
        /\ HasSnapshot(r)
        /\ response[r].statusCode = 409
        /\ FlightIdOf(r) \in DOMAIN store
        /\ store[FlightIdOf(r)].occupiedSeats = <<Seat(12, "A")>>

\* C17: when reserveSeats requests run strictly one after another, starting
\* from a flight whose occupiedSeats has no repeated id, occupiedSeats never
\* contains the same seat id twice, also when one request's selection lists
\* the same seat id at two positions.
C17_NoRepeatedSeat ==
    \A f \in DOMAIN store :
        \A i, j \in 1..Len(store[f].occupiedSeats) :
            store[f].occupiedSeats[i] = store[f].occupiedSeats[j] => i = j

\* ======================================================================
\* search-flights.js: applyDynamicPricing
\* Amounts are in cents, instants in hours; a multiplier is kept as the
\* integer number of its tenths (time tier, occupancy tier) or hundredths
\* (their product).
\* ======================================================================

\* the 1000 * 60 * 60 * 24 milliseconds of a day, in hours
MsPerDay == 24

\* Math.ceil(num / den) for den > 0
MathCeil(num, den) == -((-num) \div den)

\* Math.round(num / den) for den > 0: the nearest integer, a half going up
MathRound(num, den) == (2 * num + den) \div (2 * den)

daysUntilFlight(flightData, now) == MathCeil(flightData.departureTime - now, MsPerDay)

\* the first if-chain: the price rises as the flight date approaches
timeMultiplier(days) ==
    IF days <= 7 THEN 13
    ELSE IF days <= 14 THEN 12
    ELSE IF days <= 30 THEN 11
    ELSE 10

\* the occupancy tiers with the thresholds inclusive
occupancyMultiplierInclusive(flightData) ==
    LET occupied == flightData.totalSeats - flightData.availableSeats IN
    IF 10 * occupied >= 8 * flightData.totalSeats THEN 14
    ELSE IF 10 * occupied >= 6 * flightData.totalSeats THEN 12
    ELSE 10

\* the second if-chain: occupancyRate > 0.8, > 0.6, for totalSeats > 0
occupancyMultiplier(flightData) ==
    LET occupied == flightData.totalSeats - flightData.availableSeats IN
    IF 10 * occupied > 8 * flightData.totalSeats THEN 14
    ELSE IF 10 * occupied > 6 * flightData.totalSeats THEN 12
    ELSE 10

\* priceMultiplier at the end of the two chains, in hundredths
priceMultiplier(flightData, now) ==
    timeMultiplier(daysUntilFlight(flightData, now)) * occupancyMultiplier(flightData)

\* the flight with its price: Math.round(basePrice * priceMultiplier * 100) / 100
pricedFlight(flightData, now) ==
    [totalSeats |-> flightData.totalSeats,
     availableSeats |-> flightData.availableSeats,
     basePrice |-> flightData.basePrice,
     departureTime |-> flightData.departureTime,
     price |-> MathRound(flightData.basePrice * priceMultiplier(flightData, now), 100)]

\* flights.map over the query's items
applyDynamicPricing(flights, now) ==
    [i \in 1..Len(flights) |-> pricedFlight(flights[i], now)]

\* ----------------------------------------------------- inputs of pricing
SearchedFlight(totalSeats, availableSeats, basePrice, departureTime) ==
    [totalSeats |-> totalSeats, availableSeats |-> availableSeats,
     basePrice |-> basePrice, departureTime |-> departureTime]

\* departures from a day ago to beyond 30 days, on and around each tier's edge
DepartureTimes == {-24, 0, 1, 120, 168, 169, 170, 336, 337, 338, 720, 721, 722, 1000}

\* 200.00, 199.99 and 89.50
BasePrices == {20000, 19999, 8950}

\* 180 seats with 170 available, 5 days ahead, at 200.00
ExampleFlight == SearchedFlight(180, 170, 20000, 120)

SearchedFlights ==
    {SearchedFlight(10, a, b, d) : a \in 0..10, b \in BasePrices, d \in DepartureTimes}
        \cup {SearchedFlight(180, a, 20000, d) : a \in {170, 72, 71, 36, 35},
                                                  d \in DepartureTimes}

\* the items of a query: none, one, or two
QueryResults ==
    {<<>>} \cup {<<f>> : f \in SearchedFlights}
           \cup {<<ExampleFlight, f>> : f \in SearchedFlights}

\* ---------------------------------------------------- actions of pricing
\* the query has returned its items at hour 0 or 1
InitPricing ==
    /\ SeatIdle({SeededFlight(<<>>)}, {Today0})
    /\ PayIdle
    /\ ManifestIdle
    /\ pricing \in {[pc |-> "items", now |-> n, flights |-> q] :
                       n \in {0, 1}, q \in QueryResults}

\* searchFlights returns applyDynamicPricing(Items)
ApplyDynamicPricing ==
    /\ pricing.pc = "items"
    /\ pricing' = [pc |-> "priced",
                   now |-> pricing.now,
                   flights |-> pricing.flights,
                   priced |-> applyDynamicPricing(pricing.flights, pricing.now)]
    /\ UNCHANGED seatVars
    /\ UNCHANGED <<bookings, pay, charged, payments, manifest>>

NextPricing == ApplyDynamicPricing

SpecPricing == InitPricing /\ [][NextPricing]_vars

\* ------------------------------------------------- properties of pricing
\* whole days to departure, part of a day counting as a day
DaysAhead(f, now) ==
    CHOOSE n \in -5..60 : 24 * (n - 1) < f.departureTime - now
                          /\ f.departureTime - now <= 24 * n

\* the time tier, in percent
TimeTier(days) ==
    CASE days <= 7 -> 130
      [] days \in 8..14 -> 120
      [] days \in 15..30 -> 110
      [] OTHER -> 100

\* the occupancy tier, in percent: occupied seats against 80% and 60% of all
OccupancyTier(f) ==
    CASE 100 * (f.totalSeats - f.availableSeats) > 80 * f.totalSeats -> 140
      [] 100 * (f.totalSeats - f.availableSeats) > 60 * f.totalSeats
           /\ 100 * (f.totalSeats - f.availableSeats) <= 80 * f.totalSeats -> 120
      [] OTHER -> 100

\* price is amount rounded to whole cents, amount given in 1/10000 cent
RoundedToCents(price, amount) ==
    /\ 10000 * price - amount < 5000
    /\ amount - 10000 * price <= 5000

\* C14: the fare multiplier is the product of one time tier (days to
\* departure <= 7 x1.3, <= 14 x1.2, <= 30 x1.1, else x1.0) and one occupancy
\* tier ((totalSeats - availableSeats) / totalSeats > 0.8 x1.4, > 0.6 x1.2,
\* else x1.0, with exactly 0.6 and exactly 0.8 in the lower tier); the price
\* is basePrice x multiplier rounded to 2 decimals, and totalSeats 180,
\* availableSeats 170, basePrice 200, 5 days ahead gives 260.00.
C14_DynamicPrice ==
    pricing.pc = "priced" =>
        /\ Len(pricing.priced) = Len(pricing.flights)
        /\ \A i \in 1..Len(pricing.flights) :
              LET f == pricing.flights[i] IN
              /\ RoundedToCents(pricing.priced[i].price,
                     f.basePrice * TimeTier(DaysAhead(f, pricing.now)) * OccupancyTier(f))
              /\ pricing.priced[i].basePrice = f.basePrice
              /\ (f = ExampleFlight /\ pricing.now = 0) => pricing.priced[i].price = 26000

\* the example flight was priced at 260.00 together with a flight exactly
\* 80% full leaving in exactly 7 days, priced at x1.3 x1.2
C14_Witness ==
    /\ pricing.pc = "priced"
    /\ pricing.now = 0
    /\ Len(pricing.flights) = 2
    /\ pricing.flights[1] = ExampleFlight
    /\ pricing.priced[1].price = 26000
    /\ pricing.flights[2] = SearchedFlight(10, 2, 19999, 168)
    /\ pricing.priced[2].price = 31198

\* ======================================================================
\* payment-processor.js: validate, charge, persist
\* ======================================================================

\* a JavaScript number held in a request field
Num(n) == [kind |-> "number", val |-> n]

\* obj[k] of an object given as a function of its own fields
Field(obj, k) == IF k \in DOMAIN obj THEN obj[k] ELSE Undefined

\* /^\d{3,4}$/.test(cvv)
isValidCVV(cvv) ==
    /\ Len(cvv) \in {3, 4}
    /\ \A i \in 1..Len(cvv) : IsDigit(cvv[i])

RECURSIVE LuhnLoop(_, _, _, _)
\* the for loop of isValidCardNumber, from the last character down to the first
LuhnLoop(cardNumber, i, isEven, sum) ==
    IF i < 1 THEN sum
    ELSE LET parsed == DigitValue(cardNumber[i])
             doubled == IF 2 * parsed > 9 THEN 2 * parsed - 9 ELSE 2 * parsed
             digit == IF isEven THEN doubled ELSE parsed
         IN  LuhnLoop(cardNumber, i - 1, ~isEven, sum + digit)

isValidCardNumber(cardNumber) ==
    LET kept == {cardNumber[i] : i \in 1..Len(cardNumber)} \ {" ", "-"}
        stripped == Filter(cardNumber, kept)
    IN  IF ~(Len(stripped) = 16 /\ \A i \in 1..16 : IsDigit(stripped[i]))
        THEN FALSE
        ELSE LuhnLoop(stripped, 16, FALSE, 0) % 10 = 0

\* expiryDate.split('/'): the parts before the first and between the first
\* and the second '/', the second part missing without a '/'
SlashesOf(s) == {i \in 1..Len(s) : s[i] = "/"}
FirstSlash(s) == CHOOSE i \in SlashesOf(s) : \A j \in SlashesOf(s) : i <= j
monthStrOf(s) == IF SlashesOf(s) = {} THEN s ELSE SubSeq(s, 1, FirstSlash(s) - 1)
yearStrOf(s) ==
    LET rest == SubSeq(s, FirstSlash(s) + 1, Len(s)) IN
    IF SlashesOf(rest) = {} THEN rest ELSE SubSeq(rest, 1, FirstSlash(rest) - 1)

\* new Date(year, month - 1) > now: the first instant of the expiry month is
\* after `now`, a date <<year, month, day>>
isValidExpiryDate(expiryDate, now) ==
    LET month == parseInt(monthStrOf(expiryDate))
        yearDigits == IF SlashesOf(expiryDate) = {} THEN NaN
                      ELSE parseInt(yearStrOf(expiryDate))
        year == IF yearDigits = NaN THEN NaN ELSE 2000 + yearDigits
    IN  IF month = NaN \/ year = NaN THEN FALSE
        ELSE IF month < 1 \/ month > 12 THEN FALSE
        ELSE year > now[1] \/ (year = now[1] /\ month > now[2])

Invalid(error) == [valid |-> FALSE, error |-> error]

\* validatePaymentData for a card number that is missing or a string
validatePaymentData(paymentData, now) ==
    LET bookingData == paymentData.bookingData IN
    IF Falsy(paymentData.cardNumber) \/ ~isValidCardNumber(paymentData.cardNumber.val)
    THEN Invalid("Invalid card number")
    ELSE IF Falsy(paymentData.expiryDate)
            \/ ~isValidExpiryDate(paymentData.expiryDate.val, now)
    THEN Invalid("Invalid or expired card")
    ELSE IF Falsy(paymentData.cvv) \/ ~isValidCVV(paymentData.cvv.val)
    THEN Invalid("Invalid CVV")
    ELSE IF Falsy(paymentData.cardName) \/ Len(paymentData.cardName.val) < 2
    THEN Invalid("Invalid cardholder name")
    ELSE IF Falsy(paymentData.billingAddress) \/ Len(paymentData.billingAddress.val) < 5
    THEN Invalid("Invalid billing address")
    ELSE IF \/ bookingData.kind = "undefined"
            \/ Falsy(Field(bookingData.fields, "flights"))
            \/ Falsy(Field(bookingData.fields, "seats"))
            \/ Falsy(Field(bookingData.fields, "passengers"))
    THEN Invalid("Missing booking information")
    ELSE IF \/ Field(bookingData.fields, "totalPrice").kind # "number"
            \/ Field(bookingData.fields, "totalPrice").val <= 0
    THEN Invalid("Invalid booking price")
    ELSE [valid |-> TRUE]

\* processPayment: the expiry date is checked again, then the gateway
\* accepts (with the payment id it issues) or declines
processPayment(paymentData, now, shouldSucceed, paymentId) ==
    IF ~isValidExpiryDate(paymentData.expiryDate.val, now)
    THEN [success |-> FALSE, error |-> "Card has expired"]
    ELSE IF shouldSucceed
    THEN [success |-> TRUE, paymentId |-> paymentId]
    ELSE [success |-> FALSE, error |-> "Payment declined. Please try a different card."]

\* the payment ids the gateway issues, two of them
PaymentIds == {"PAY-1718409600000-k3j9x2m1q", "PAY-1718409600001-a8d7f6g5h"}

\* generateBookingReference: six characters drawn from A-Z0-9, two outcomes
BookingReferences == {"AB12CD", "ZZ9999"}

\* the item handed to saveBooking: { bookingRef, paymentId, ...bookingData,
\* status: 'CONFIRMED', timestamp }, a later field replacing an earlier one
\* of the same name
bookingItem(bookingRef, paymentId, bookingData, now) ==
    [k \in {"bookingRef", "paymentId", "status", "timestamp"} \cup DOMAIN bookingData |->
        IF k = "status" THEN "CONFIRMED"
        ELSE IF k = "timestamp" THEN now
        ELSE IF k \in DOMAIN bookingData THEN bookingData[k]
        ELSE IF k = "bookingRef" THEN bookingRef
        ELSE paymentId]

\* the PutCommand with the item written whether or not its key is taken
saveBookingOverwrite(table, item) ==
    [threw |-> FALSE,
     table |-> [k \in DOMAIN table \cup {item["bookingRef"]} |->
                   IF k = item["bookingRef"] THEN item ELSE table[k]]]

\* saveBooking when the store answers: the PutCommand with
\* attribute_not_exists(bookingRef) on the table keyed by bookingRef
saveBooking(table, item) ==
    IF item["bookingRef"] \in DOMAIN table
    THEN [threw |-> TRUE, table |-> table]
    ELSE [threw |-> FALSE,
          table |-> [k \in DOMAIN table \cup {item["bookingRef"]} |->
                        IF k = item["bookingRef"] THEN item ELSE table[k]]]

\* the response of the inner catch
saveFailed ==
    createResponse(500, [success |-> FALSE, error |-> "Failed to save booking details"])

\* the response of the outer catch
paymentInternalError(message) ==
    createResponse(500, [success |-> FALSE, error |-> "Internal server error",
                         message |-> message])

\* ----------------------------------------------------- inputs of payment
Rep(c, n) == [i \in 1..n |-> c]

\* 4111111111111111 passes the Luhn check
GoodCard == <<"4">> \o Rep("1", 15)
SpacedCard == <<"4">> \o Rep("1", 3) \o <<" ">> \o Rep("1", 4) \o <<"-">>
                     \o Rep("1", 4) \o <<" ">> \o Rep("1", 4)
BadLuhnCard == <<"4">> \o Rep("1", 14) \o <<"2">>
ShortCard == <<"4">> \o Rep("1", 14)

Expiry(mm, yy) == <<mm[1], mm[2], "/", yy[1], yy[2]>>

BookingData(fields) == [kind |-> "object", fields |-> fields]

GoodBooking ==
    [flights |-> Arr(<<"F1">>), seats |-> Arr(<<Seat(2, "B")>>),
     passengers |-> Arr(<<Passenger(Born30)>>), totalPrice |-> Num(45000)]

\* booking data that brings its own paymentId, or its own bookingRef
BookingWithPaymentId ==
    [flights |-> Arr(<<"F1">>), seats |-> Arr(<<Seat(2, "B")>>),
     passengers |-> Arr(<<Passenger(Born30)>>), totalPrice |-> Num(45000),
     paymentId |-> "PAY-0"]
BookingWithBookingRef ==
    [flights |-> Arr(<<"F1">>), seats |-> Arr(<<Seat(2, "B")>>),
     passengers |-> Arr(<<Passenger(Born30)>>), totalPrice |-> Num(45000),
     bookingRef |-> "QQ0000"]

GoodPayment ==
    [httpMethod |-> "POST",
     cardNumber |-> StrVal(GoodCard),
     expiryDate |-> StrVal(Expiry(<<"1", "2">>, <<"2", "7">>)),
     cvv |-> StrVal(<<"1", "2", "3">>),
     cardName |-> StrVal(<<"A", "l">>),
     billingAddress |-> StrVal(<<"1", " ", "M", "a", "i">>),
     bookingData |-> BookingData(GoodBooking)]

PayEvents ==
    { GoodPayment,
      [GoodPayment EXCEPT !.cardNumber = StrVal(SpacedCard)],
      [GoodPayment EXCEPT !.cardNumber = StrVal(BadLuhnCard)],
      [GoodPayment EXCEPT !.cardNumber = StrVal(ShortCard)],
      [GoodPayment EXCEPT !.cardNumber = Undefined],
      [GoodPayment EXCEPT !.cardNumber = Num(4111)],
      [GoodPayment EXCEPT !.expiryDate = StrVal(Expiry(<<"0", "7">>, <<"2", "6">>))],
      [GoodPayment EXCEPT !.expiryDate = StrVal(Expiry(<<"0", "6">>, <<"2", "6">>))],
      [GoodPayment EXCEPT !.expiryDate = StrVal(Expiry(<<"1", "3">>, <<"2", "7">>))],
      [GoodPayment EXCEPT !.expiryDate = StrVal(<<"1", "2", "2", "7">>)],
      [GoodPayment EXCEPT !.expiryDate = StrVal(<<"a", "b", "/", "2", "7">>)],
      [GoodPayment EXCEPT !.expiryDate = Undefined],
      [GoodPayment EXCEPT !.cvv = StrVal(<<"1", "2">>)],
      [GoodPayment EXCEPT !.cvv = StrVal(<<"1", "2", "3", "4">>)],
      [GoodPayment EXCEPT !.cvv = StrVal(<<"1", "2", "x">>)],
      [GoodPayment EXCEPT !.cardName = StrVal(<<"A">>)],
      [GoodPayment EXCEPT !.billingAddress = StrVal(<<"1", " ", "M", "a">>)],
      [GoodPayment EXCEPT !.bookingData = Undefined],
      [GoodPayment EXCEPT !.bookingData =
          BookingData([flights |-> Arr(<<"F1">>), passengers |-> Arr(<<>>),
                       totalPrice |-> Num(45000)])],
      [GoodPayment EXCEPT !.bookingData =
          BookingData([GoodBooking EXCEPT !.totalPrice = Num(0)])],
      [GoodPayment EXCEPT !.bookingData =
          BookingData([GoodBooking EXCEPT !.totalPrice = StrVal(<<"4", "5", "0">>)])],
      [GoodPayment EXCEPT !.bookingData = BookingData(BookingWithPaymentId)],
      [GoodPayment EXCEPT !.bookingData = BookingData(BookingWithBookingRef)],
      [GoodPayment EXCEPT !.httpMethod = "OPTIONS"] }

\* ---------------------------------------------------- actions of payment
\* the handler's invocation after its synchronous prefix
PayState(next, e, validation, resp) ==
    [pc |-> next, event |-> e, validation |-> validation, paymentResult |-> None,
     bookingRef |-> "", item |-> None, response |-> resp, puts |-> 0]

\* a payment request arrives: OPTIONS is answered at once, a card number
\* that is not a string makes validatePaymentData throw, a failed validation
\* is answered 400, else processPayment is called
PayStart ==
    /\ pay.pc = "idle"
    /\ payments < MaxPayments
    /\ payments' = payments + 1
    /\ \E e \in PayEvents :
          pay' = IF e.httpMethod = "OPTIONS"
                 THEN PayState("done", e, None, createResponse(200, EmptyObject))
                 ELSE IF e.cardNumber.kind = "number"
                 THEN PayState("done", e, None,
                               paymentInternalError("cardNumber.replace is not a function"))
                 ELSE LET validation == validatePaymentData(e, today) IN
                      IF ~validation.valid
                      THEN PayState("done", e, validation,
                                    createResponse(400, [success |-> FALSE,
                                                         error |-> validation.error]))
                      ELSE PayState("charge", e, validation, None)
    /\ UNCHANGED seatVars
    /\ UNCHANGED <<bookings, charged, manifest, pricing>>

\* processPayment returns; on success the booking reference is generated and
\* the PutCommand is sent
PayCharge ==
    /\ pay.pc = "charge"
    /\ \E shouldSucceed \in BOOLEAN, paymentId \in PaymentIds,
          bookingRef \in BookingReferences :
          LET paymentResult == processPayment(pay.event, today, shouldSucceed, paymentId) IN
          IF ~paymentResult.success
          THEN /\ pay' = [pay EXCEPT !.pc = "done",
                                     !.paymentResult = paymentResult,
                                     !.response = createResponse(400,
                                         [success |-> FALSE, error |-> paymentResult.error])]
               /\ charged' = charged
          ELSE /\ pay' = [pay EXCEPT !.pc = "save",
                                     !.paymentResult = paymentResult,
                                     !.bookingRef = bookingRef,
                                     !.item = bookingItem(bookingRef, paymentResult.paymentId,
                                                 pay.event.bookingData.fields, today),
                                     !.puts = 1]
               /\ charged' = charged \cup {paymentResult.paymentId}
    /\ UNCHANGED seatVars
    /\ UNCHANGED <<bookings, payments, manifest, pricing>>

\* the PutCommand completes: the item is stored, or the condition fails and
\* saveBooking throws
PaySaveReturns ==
    /\ pay.pc = "save"
    /\ LET out == saveBooking(bookings, pay.item) IN
       /\ bookings' = out.table
       /\ pay' = [pay EXCEPT !.pc = "done",
                             !.response =
                                 IF out.threw THEN saveFailed
                                 ELSE createResponse(200,
                                         [success |-> TRUE,
                                          bookingReference |-> pay.bookingRef,
                                          paymentId |-> pay.paymentResult.paymentId])]
    /\ UNCHANGED seatVars
    /\ UNCHANGED <<charged, payments, manifest, pricing>>

\* the PutCommand is rejected by the store (throttling, network)
PaySaveFails ==
    /\ pay.pc = "save"
    /\ pay' = [pay EXCEPT !.pc = "done", !.response = saveFailed]
    /\ UNCHANGED seatVars
    /\ UNCHANGED <<bookings, charged, payments, manifest, pricing>>

\* the response has been delivered
PayFinish ==
    /\ pay.pc = "done"
    /\ pay' = [pc |-> "idle"]
    /\ UNCHANGED seatVars
    /\ UNCHANGED <<bookings, charged, payments, manifest, pricing>>

\* the month ends between two readings of the clock
MonthEnds ==
    /\ today = Today0
    /\ today' = <<2026, 7, 1>>
    /\ UNCHANGED <<store, pc, event, flight, response, reads, writes, confirmed,
                   seenConfirmed, invocations>>
    /\ UNCHANGED otherVars

\* a booking made earlier under the reference AB12CD
EarlierBooking ==
    bookingItem("AB12CD", "PAY-1700000000000-earlier00", GoodBooking, <<2026, 5, 2>>)

InitPay ==
    /\ SeatIdle({SeededFlight(<<>>)}, {Today0})
    /\ bookings \in {<<>>, [k \in {"AB12CD"} |-> EarlierBooking]}
    /\ pay = [pc |-> "idle"]
    /\ charged = {}
    /\ payments = 0
    /\ ManifestIdle
    /\ PricingIdle

NextPay ==
    \/ PayStart
    \/ PayCharge
    \/ PaySaveReturns
    \/ PaySaveFails
    \/ PayFinish
    \/ MonthEnds

SpecPay == InitPay /\ [][NextPay]_vars

\* ------------------------------------------------- properties of payment
PayDone == pay.pc = "done"

\* validation ran and failed, or the payment call returned without success
ValidationFailed == PayDone /\ pay.validation # None /\ ~pay.validation.valid
PaymentFailed == PayDone /\ pay.paymentResult # None /\ ~pay.paymentResult.success

\* the handler answered 200 with a booking reference and a payment id
PaySucceeded ==
    /\ PayDone
    /\ pay.response.statusCode = 200
    /\ DOMAIN pay.response.body = {"success", "bookingReference", "paymentId"}

\* C18: the payment handler validates, charges, then persists: a booking
\* record is written only after validation passed and the payment call
\* returned success; when validation or payment fails the response is 400 and
\* no write is attempted; a success response (200 with bookingReference and
\* paymentId) is returned only if the booking record with status CONFIRMED and
\* that paymentId was persisted under that reference.
C18_ValidateChargePersist ==
    /\ (pay.pc # "idle" /\ pay.puts = 1) =>
          /\ pay.validation # None /\ pay.validation.valid
          /\ pay.paymentResult # None /\ pay.paymentResult.success
    /\ (ValidationFailed \/ PaymentFailed) =>
          /\ pay.response.statusCode = 400
          /\ pay.puts = 0
    /\ PaySucceeded =>
          /\ pay.response.body.bookingReference \in DOMAIN bookings
          /\ bookings[pay.response.body.bookingReference]["status"] = "CONFIRMED"
          /\ bookings[pay.response.body.bookingReference]["paymentId"] =
                pay.response.body.paymentId

\* the step in which the PutCommand of the current invocation comes back
PutComesBack == pay.pc = "save" /\ pay'.pc = "done"

LowerCase == <<"a", "b", "c", "d", "e", "f", "g", "h", "i", "j", "k", "l", "m",
               "n", "o", "p", "q", "r", "s", "t", "u", "v", "w", "x", "y", "z">>

\* the string a regular expression tests for a value: String(undefined) is
\* "undefined"
TestedString(v) ==
    IF v.kind = "undefined" THEN <<"u", "n", "d", "e", "f", "i", "n", "e", "d">>
    ELSE v.val

\* /^[A-Za-z\s-]{2,50}$/.test(name)
nameRegex(name) ==
    LET s == TestedString(name) IN
    /\ Len(s) >= 2 /\ Len(s) <= 50
    /\ \A i \in 1..Len(s) :
          \/ \E k \in 1..26 : UpperCase[k] = s[i] \/ LowerCase[k] = s[i]
          \/ s[i] \in {" ", "-"}

\* /^[^\s@]+@[^\s@]+\.[^\s@]+$/.test(email)
emailRegex(email) ==
    LET s == TestedString(email) IN
    \E at \in 1..Len(s), dot \in 1..Len(s) :
        /\ s[at] = "@" /\ s[dot] = "."
        /\ 1 < at /\ at + 1 < dot /\ dot < Len(s)
        /\ \A i \in 1..Len(s) : i # at => s[i] \notin {" ", "@"}

NoPassengerTypes == [adults |-> 0, children |-> 0, infants |-> 0]

RECURSIVE PassengerLoop(_, _, _, _)
\* the for...of loop of validatePassengers from passenger i on; every
\* comparison with a NaN age is false
PassengerLoop(passengers, i, passengerTypes, now) ==
    IF i > Len(passengers) THEN [valid |-> TRUE, passengerTypes |-> passengerTypes]
    ELSE LET passenger == passengers[i]
             age == calculateAge(passenger.dateOfBirth, now)
         IN  IF ~nameRegex(passenger.firstName) \/ ~nameRegex(passenger.lastName)
             THEN Invalid("Invalid name format. Names must be 2-50 characters long and contain only letters, spaces, and hyphens.")
             ELSE IF ~emailRegex(passenger.email)
             THEN Invalid("Invalid email format.")
             ELSE IF age # NaN /\ age < 0
             THEN Invalid("Invalid date of birth.")
             ELSE IF age # NaN /\ age >= 12
             THEN PassengerLoop(passengers, i + 1,
                      [passengerTypes EXCEPT !.adults = @ + 1], now)
             ELSE IF age # NaN /\ age >= 2
             THEN PassengerLoop(passengers, i + 1,
                      [passengerTypes EXCEPT !.children = @ + 1], now)
             ELSE PassengerLoop(passengers, i + 1,
                      [passengerTypes EXCEPT !.infants = @ + 1], now)

validatePassengers(passengers, now) ==
    LET counted == PassengerLoop(passengers, 1, NoPassengerTypes, now) IN
    IF ~counted.valid THEN counted
    ELSE IF counted.passengerTypes.adults = 0
    THEN Invalid("At least one adult passenger is required.")
    ELSE IF counted.passengerTypes.infants > counted.passengerTypes.adults
    THEN Invalid("Maximum one infant per adult allowed.")
    ELSE counted

\* the handler of validate-passengers.js: the request data is event.body
\* (parsed when it is a string) or the event itself
manifestHandler(e, now) ==
    IF e.body.kind = "malformed" THEN internalError("Unexpected token in JSON")
    ELSE LET requestData == IF e.body.kind = "undefined" THEN e ELSE e.body
             passengers == requestData.passengers
         IN  IF ~IsArray(passengers) \/ Len(passengers.val) = 0 \/ Len(passengers.val) > 9
             THEN createResponse(400,
                     [error |-> "Invalid number of passengers. Must be between 1 and 9."])
             ELSE LET validation == validatePassengers(passengers.val, now) IN
                  IF ~validation.valid
                  THEN createResponse(400, [error |-> validation.error])
                  ELSE createResponse(200, [success |-> TRUE,
                                            passengerTypes |-> validation.passengerTypes])

\* ---------------------------------------------------- inputs of manifest
\* the longest manifest built from every kind of passenger
MaxManifest == 3

Traveller(firstName, email, dob) ==
    [firstName |-> firstName, lastName |-> StrVal(<<"L", "e", "e">>),
     email |-> email, dateOfBirth |-> dob]

GoodName == StrVal(<<"A", "n", "n", "-", "M", "a", "y">>)
GoodEmail == StrVal(<<"a", "@", "b", ".", "c", "o">>)

\* by age on Today0: 30, exactly 12, 11, exactly 2, 1, 0, born tomorrow,
\* without a date of birth; then a one-letter name, a name left out, and an
\* address without a dot after the '@'
Travellers ==
    { Traveller(GoodName, GoodEmail, Born30),
      Traveller(GoodName, GoodEmail, <<2014, 6, 15>>),
      Traveller(GoodName, GoodEmail, <<2014, 6, 16>>),
      Traveller(GoodName, GoodEmail, <<2024, 6, 15>>),
      Traveller(GoodName, GoodEmail, <<2024, 6, 16>>),
      Traveller(GoodName, GoodEmail, <<2026, 1, 1>>),
      Traveller(GoodName, GoodEmail, <<2026, 6, 16>>),
      Traveller(GoodName, GoodEmail, NoBirthDate),
      Traveller(StrVal(<<"A">>), GoodEmail, Born30),
      Traveller(Undefined, GoodEmail, Born30),
      Traveller(GoodName, StrVal(<<"a", "@", "b", "c", "o">>), Born30) }

Manifests ==
    UNION {[1..n -> Travellers] : n \in 0..MaxManifest}
        \cup {[i \in 1..9 |-> Traveller(GoodName, GoodEmail, Born30)],
              [i \in 1..10 |-> Traveller(GoodName, GoodEmail, Born30)],
              [i \in 1..9 |-> Traveller(GoodName, GoodEmail,
                                 IF i <= 4 THEN <<2024, 6, 16>> ELSE Born30)]}

\* the manifest sent as the event itself, as event.body, or as a JSON string
ManifestEvents ==
    {[body |-> Undefined, passengers |-> Arr(m)] : m \in Manifests}
        \cup {[body |-> [kind |-> k, passengers |-> Arr(m)]] :
                 k \in {"object", "string"},
                 m \in {mm \in Manifests : Len(mm) \in {1, 2, 9}}}
        \cup {[body |-> Undefined, passengers |-> Undefined],
              [body |-> [kind |-> "object", passengers |-> Undefined]],
              [body |-> [kind |-> "object",
                         passengers |-> StrVal(<<"t", "w", "o">>)]],
              [body |-> [kind |-> "malformed"]]}

\* --------------------------------------------------- actions of manifest
InitManifest ==
    /\ SeatIdle({SeededFlight(<<>>)}, {Today0})
    /\ PayIdle
    /\ manifest \in {[pc |-> "request", event |-> e] : e \in ManifestEvents}
    /\ PricingIdle

\* the handler runs from entry to return: it awaits nothing
ValidateManifest ==
    /\ manifest.pc = "request"
    /\ manifest' = [pc |-> "done", event |-> manifest.event,
                    response |-> manifestHandler(manifest.event, today)]
    /\ UNCHANGED seatVars
    /\ UNCHANGED <<bookings, pay, charged, payments, pricing>>

NextManifest == ValidateManifest

SpecManifest == InitManifest /\ [][NextManifest]_vars

\* ------------------------------------------------ properties of manifest
\* the passengers of a request that carried an array
ManifestOf(e) == IF e.body.kind = "undefined" THEN e.passengers ELSE e.body.passengers

ManifestSucceeded ==
    /\ manifest.pc = "done"
    /\ manifest.response.statusCode = 200

\* the passengers of the manifest whose age today lies in `ages`
InClass(ps, ages) == {i \in 1..Len(ps) : AgeOn(ps[i].dateOfBirth, today) \in ages}

\* C20: the passenger-manifest handler returns success only if the manifest
\* has between 1 and 9 passengers, at least one adult (age >= 12) and no more
\* infants (age < 2) than adults; on success adults + children + infants is
\* the number of passengers, each passenger counted in exactly one class:
\* adult from 12, child 2 to 11, infant 0 to 1.
C20_ManifestClasses ==
    ManifestSucceeded =>
        LET ps == ManifestOf(manifest.event).val
            types == manifest.response.body.passengerTypes
        IN  /\ Len(ps) \in 1..9
            /\ Cardinality(InClass(ps, 12..130)) >= 1
            /\ Cardinality(InClass(ps, 0..1)) <= Cardinality(InClass(ps, 12..130))
            /\ types.adults + types.children + types.infants = Len(ps)
            /\ types.adults = Cardinality(InClass(ps, 12..130))
            /\ types.children = Cardinality(InClass(ps, 2..11))
            /\ types.infants = Cardinality(InClass(ps, 0..1))

=============================================================================
